---- MODULE Spec2Model ----
(***************************************************************************)
(* Model of the type-keyed container of src/src/lib.rs: the two entry      *)
(* stores, the known-specializations map, the four registration calls and  *)
(* the three resolution calls, with factories that call back into the      *)
(* container while they run.                                               *)
(***************************************************************************)
EXTENDS Integers, Sequences, FiniteSets, TLC

\* ------------------------------------------------------------------ bounds
MaxRegs == 2        \* registration calls made by the application
MaxHist == 4        \* factory events remembered per key between registrations
MaxDepth == 10      \* call frames available before the stack overflows

\* ---------------------------------------------------------- input universe
\* Owning types (TypeId::of::<T>()).
Types == {"T", "U"}
Other(X) == IF X = "T" THEN "U" ELSE "T"

\* Discriminant types and their members; "S" is the two-valued enum of the
\* example program, "R" a second discriminant type with one member.
DTypes == {"S", "R"}
Discriminants ==
    { [dt |-> "S", name |-> "A"], [dt |-> "S", name |-> "B"],
      [dt |-> "R", name |-> "A"] }
SA == [dt |-> "S", name |-> "A"]
SB == [dt |-> "S", name |-> "B"]
RA == [dt |-> "R", name |-> "A"]
Ints == {0, 1}

\* From<S> for i32: `enum_value as i32`.
IntOf(d) == IF d.name = "A" THEN 0 ELSE 1

\* From<i32> for S: the member with that integer value; other integers
\* panic ("nope").
HasMember(dt, n) == \E d \in Discriminants : d.dt = dt /\ IntOf(d) = n
FromI32(dt, n) == CHOOSE d \in Discriminants : d.dt = dt /\ IntOf(d) = n

\* Specialized keys the application itself registers and resolves, and the
\* pairs it enumerates.
SpecializedUses == { <<"T", SA>>, <<"T", SB>>, <<"U", SA>> }
ResolvedUses == SpecializedUses \cup { <<"T", RA>> }
EnumeratedUses == { <<"T", "S">>, <<"U", "S">> }

\* Factory closures the application may register, by what their body does
\* with the container before returning:
\*   plain  nothing
\*   dep    container.default::<Other>()?
\*   cycle  resolves the key it is registered under
\*   self   registers an instance under the key it is registered under
\*   enum   container.all_specialized::<Other, S>()?
\*   reg    container.register_specialized_instance::<Own, R>(A, ..)
Closures == {"plain", "dep", "cycle", "self", "enum", "reg"}
\* Closures whose own construction step may fail (transient cause).
Flaky == {"plain", "dep"}
\* The closures registered for an owning type, by default or specialized:
\* "T" is the composed type, "U" the type it depends on.
ClosuresFor(T) == IF T = "T" THEN Closures ELSE {"plain"}
ClosuresAt(T, d) == IF d = SA THEN ClosuresFor(T) ELSE {"plain"}

\* What T::clone does (the only bound of the library is T: Clone): "T" is a
\* shared handle such as Arc<dyn GroceryStore>, whose clone points at the same
\* object; "U" is a plain value type, whose clone is a new object.
Shared(T) == T = "T"

\* --------------------------------------------------------------------- keys
DefaultKey(T) == <<T>>
\* Variant: the discriminant type is left out of the key.
SpecializedEntryKey_untyped(T, d) == <<T, "S", IntOf(d)>>
SpecializedEntryKey(T, d) == <<T, d.dt, IntOf(d)>>
KnownSpecializationKey(T, dt) == <<T, dt>>

DefaultKeys == { DefaultKey(T) : T \in Types }
SpecializedKeys == { SpecializedEntryKey(T, d) : T \in Types, d \in Discriminants }
AllKeys == DefaultKeys \cup SpecializedKeys
KnownKeys == { KnownSpecializationKey(T, dt) : T \in Types, dt \in DTypes }

\* ------------------------------------------------------------------- values
EmptyMap == [x \in {} |-> TRUE]
Put(map, k, v) == [x \in (DOMAIN map) \cup {k} |-> IF x = k THEN v ELSE map[x]]

Unit == "unit"
Ok(v) == [tag |-> "Ok", val |-> v]
Err(e) == [tag |-> "Err", err |-> e]
Panic(w) == [tag |-> "Panic", why |-> w]

MissingEntry == [kind |-> "MissingEntry"]
MissingSpecializedEntry == [kind |-> "MissingSpecializedEntry"]
FactoryError(cause) == [kind |-> "FactoryError", error |-> cause]
\* The cause a failing closure reports (some Box<dyn Error>).
Boom == [kind |-> "Boom"]

Instance(obj) == [kind |-> "Instance", obj |-> obj]
Factory(f) == [kind |-> "Factory", f |-> f]
\* Variant: a specialized factory is stored as an entry of the default kind.
SpecializedFactory_default(f) == [kind |-> "Factory", f |-> f]
SpecializedFactory(f) == [kind |-> "SpecializedFactory", f |-> f]

\* Arc::new: a fresh allocation, named by the key it is made for and the
\* number of allocations made for that key so far.
\* copy is 0 for the allocation itself and numbers the copies made of it.
ArcNew(m, key, by) ==
    [ty |-> key[1], by |-> by, id |-> <<key, m.allocs[key] + 1>>, copy |-> 0]

\* (*instance).downcast_ref::<T>().unwrap().clone()
downcast_ref(obj, T) == IF obj.ty = T THEN Ok(obj) ELSE Panic("downcast")

\* Variant: every clone is a new object, also for shared handles.
clone_deep(m, key, obj) ==
    [obj EXCEPT !.copy = IF [obj EXCEPT !.copy = 1] \in m.held THEN 2 ELSE 1]
\* T::clone of the stored object: the same object for a shared handle, else a
\* new object, numbered with the least number that no copy which the caller
\* holds from the call before bears.
clone(m, key, obj) ==
    IF Shared(key[1]) THEN obj
    ELSE [obj EXCEPT !.copy = IF [obj EXCEPT !.copy = 1] \in m.held THEN 2 ELSE 1]

\* The Instance arm of default and specialized.
instance_arm(m, key, instance) ==
    LET got == downcast_ref(instance, key[1]) IN
    IF got.tag # "Ok" THEN [m |-> m, r |-> got]
    ELSE [m |-> m, r |-> Ok(clone(m, key, got.val))]

\* ------------------------------------------------------------ history notes
\* hist[key]: factory events of the key since its last registration;
\* log: events of the running call, in order.
Noted(m, key, ev) ==
    [m EXCEPT !.hist[key] = Append(@, ev), !.log = Append(@, <<ev, key>>)]
NotedErr(m, key, e) ==
    [m EXCEPT !.hist[key] = Append(@, "err"), !.log = Append(@, <<"err", key, e>>)]
Registered(m, key, what) ==
    [m EXCEPT !.hist[key] = <<>>, !.lastReg = Put(@, key, what)]

\* ------------------------------------------------------------ registration
\* Variant: the set is replaced by the new value instead of extended.
InsertKnown_replace(set, v) == {v}
\* Variant: every integer becomes known with the first one.
InsertKnown_all(set, v) == set \cup {v} \cup Ints
\* known_specializations_entry.insert(specialization_value)
InsertKnown(set, v) == set \cup {v}

register_specialization(m, T, d) ==
    IF m.borrowed
    THEN [m |-> m, r |-> Panic("BorrowMutError")]
    ELSE LET k == KnownSpecializationKey(T, d.dt)
             known == IF k \in DOMAIN m.specializations
                      THEN m.specializations[k] ELSE {}
         IN [m |-> [m EXCEPT !.specializations = Put(@, k, InsertKnown(known, IntOf(d)))],
             r |-> Ok(Unit)]

register_instance(m, T) ==
    LET key == DefaultKey(T)
        obj == ArcNew(m, key, "instance")
        m1 == [m EXCEPT !.entries = Put(@, T, Instance(obj)),
                        !.allocs[key] = @ + 1]
    IN [m |-> Registered(m1, key, [kind |-> "instance", obj |-> obj]),
        r |-> Ok(Unit)]

register_factory(m, T, f) ==
    LET key == DefaultKey(T)
        m1 == [m EXCEPT !.entries = Put(@, T, Factory(f))]
    IN [m |-> Registered(m1, key, [kind |-> "factory", f |-> f]),
        r |-> Ok(Unit)]

\* passed[k]: the integer values handed to a specialized registration for
\* the pair k, noted when the call is entered.
Passed(m, T, d) ==
    LET k == KnownSpecializationKey(T, d.dt)
    IN [m EXCEPT !.passed[k] = @ \cup {IntOf(d)}]

register_specialized_instance(m, T, d) ==
    LET key == SpecializedEntryKey(T, d)
        obj == ArcNew(m, key, "instance")
        m1 == [Passed(m, T, d) EXCEPT
                  !.specialized_entries = Put(@, key, Instance(obj)),
                  !.allocs[key] = @ + 1]
    IN register_specialization(
           Registered(m1, key, [kind |-> "instance", obj |-> obj]), T, d)

register_specialized_factory(m, T, d, f) ==
    LET key == SpecializedEntryKey(T, d)
        m1 == [Passed(m, T, d) EXCEPT
                  !.specialized_entries = Put(@, key, SpecializedFactory(f))]
    IN register_specialization(
           Registered(m1, key, [kind |-> "factory", f |-> f]), T, d)

\* --------------------------------------------------------------- resolution
\* A call returns [m |-> the container afterwards, r |-> Ok / Err / Panic].
\* `CHOOSE out \in { e : x \in {call} } : TRUE` is `let x = call; e`: the call
\* is evaluated once and e is computed from its result.
\* env.fail: keys whose flaky closure fails during this call;
\* env.order: the order in which HashSet::iter yields integers.
RECURSIVE default(_, _, _, _)
RECURSIVE specialized(_, _, _, _, _)
RECURSIVE all_specialized(_, _, _, _, _)
RECURSIVE enumerate(_, _, _, _, _, _, _)
RECURSIVE any_factory(_, _, _, _, _)

\* The body of a registered closure: the container call it makes.
closure_body(m, env, key, f, fuel) ==
    CASE f = "dep"   -> default(m, env, Other(key[1]), fuel)
      [] f = "cycle" -> IF Len(key) = 1
                        THEN default(m, env, key[1], fuel)
                        ELSE specialized(m, env, key[1], FromI32(key[2], key[3]), fuel)
      [] f = "self"  -> IF Len(key) = 1
                        THEN register_instance(m, key[1])
                        ELSE register_specialized_instance(m, key[1], FromI32(key[2], key[3]))
      [] f = "enum"  -> all_specialized(m, env, Other(key[1]), "S", fuel)
      [] f = "reg"   -> register_specialized_instance(m, key[1], RA)
      [] OTHER       -> [m |-> m, r |-> Ok(Unit)]

\* The closure's own construction step after its container call went well.
closure_result(env, key, f) ==
    IF key \in env.fail /\ f \in Flaky
    THEN Err(FactoryError(Boom))
    ELSE Ok(Unit)

\* any_factory: runs the closure (`?` on its container call) and wraps what it
\* built in Arc::new.
any_factory(m, env, key, f, fuel) ==
    CHOOSE out \in {
        LET built == closure_result(env, key, f) IN
        CASE called.r.tag = "Panic" -> called
          [] called.r.tag = "Err" ->
               [m |-> NotedErr(called.m, key, called.r.err), r |-> called.r]
          [] built.tag = "Err" ->
               [m |-> NotedErr(called.m, key, built.err), r |-> built]
          [] OTHER ->
               [m |-> Noted([called.m EXCEPT !.allocs[key] = @ + 1], key, "ok"),
                r |-> Ok(ArcNew(called.m, key, f))]
        : called \in {closure_body(Noted(m, key, "call"), env, key, f, fuel)} } : TRUE

\* Variant: the error kind of the specialized path.
default_none_specialized(m) == [m |-> m, r |-> Err(MissingSpecializedEntry)]
\* Variant: an absent default key falls back on an instance of the
\* specialized store.
default_none_fallback(m) ==
    LET held == { k \in DOMAIN m.specialized_entries :
                    m.specialized_entries[k].kind = "Instance" }
    IN IF held = {} THEN [m |-> m, r |-> Err(MissingEntry)]
       ELSE [m |-> m, r |-> Ok(m.specialized_entries[CHOOSE k \in held : TRUE].obj)]
\* default: the key is absent.
default_none(m) == [m |-> m, r |-> Err(MissingEntry)]

\* Variant: a failed factory is dropped from the store.
default_failed_evict(m, T, err) ==
    [m |-> [m EXCEPT !.entries = [x \in (DOMAIN @) \ {T} |-> @[x]]], r |-> Err(err)]
\* Variant: the error of the factory is wrapped into a FactoryError.
default_failed_wrap(m, T, err) == [m |-> m, r |-> Err(FactoryError(err))]
\* Variant: a failure turns the memoized instances back into their factories.
default_failed_rollback(m, T, err) ==
    [m |-> [m EXCEPT !.entries =
                [x \in DOMAIN @ |->
                    IF @[x].kind = "Instance" /\ @[x].obj.by # "instance"
                    THEN Factory(@[x].obj.by) ELSE @[x]]],
     r |-> Err(err)]
\* default: the factory returned Err(err).
default_failed(m, T, err) == [m |-> m, r |-> Err(err)]

\* Variant: the instance is returned without being stored.
default_insert_skip(m, T, new_instance) == m
\* Variant: the instance is stored only where the factory is still the entry.
default_insert_keep(m, T, new_instance) ==
    IF m.entries[T].kind = "Factory"
    THEN [m EXCEPT !.entries = Put(@, T, Instance(new_instance))]
    ELSE m
\* default: entries.insert(type_id, ContainerEntry::Instance(new_instance)).
default_insert(m, T, new_instance) ==
    [m EXCEPT !.entries = Put(@, T, Instance(new_instance))]

default(m, env, T, fuel) ==
    IF fuel = 0 THEN [m |-> m, r |-> Panic("StackOverflow")]
    ELSE IF T \notin DOMAIN m.entries THEN default_none(m)
    ELSE LET container_entry == m.entries[T] IN
         CASE container_entry.kind = "Instance" ->
                instance_arm(m, DefaultKey(T), container_entry.obj)
           [] container_entry.kind = "Factory" ->
                CHOOSE out \in {
                    CASE made.r.tag = "Ok" ->
                           default(default_insert(made.m, T, made.r.val), env, T, fuel - 1)
                      [] made.r.tag = "Err" -> default_failed(made.m, T, made.r.err)
                      [] OTHER -> made
                    : made \in {any_factory(m, env, DefaultKey(T), container_entry.f,
                                            fuel - 1)} } : TRUE
           [] OTHER -> [m |-> m, r |-> Err(MissingEntry)]

\* specialized: the key is absent.
specialized_none(m) == [m |-> m, r |-> Err(MissingSpecializedEntry)]
\* specialized: the factory returned Err(err).
specialized_failed(m, key, err) == [m |-> m, r |-> Err(err)]
\* Variant: the instance is returned without being stored.
specialized_insert_skip(m, key, new_instance) == m
\* specialized: specialized_entries.insert(specialized_entry_key, new_entry).
specialized_insert(m, key, new_instance) ==
    [m EXCEPT !.specialized_entries = Put(@, key, Instance(new_instance))]

specialized(m, env, T, specialization, fuel) ==
    LET specialized_entry_key == SpecializedEntryKey(T, specialization) IN
    IF fuel = 0 THEN [m |-> m, r |-> Panic("StackOverflow")]
    ELSE IF specialized_entry_key \notin DOMAIN m.specialized_entries
         THEN specialized_none(m)
    ELSE LET container_entry == m.specialized_entries[specialized_entry_key] IN
         CASE container_entry.kind = "Instance" ->
                instance_arm(m, specialized_entry_key, container_entry.obj)
           [] container_entry.kind = "SpecializedFactory" ->
                CHOOSE out \in {
                    CASE made.r.tag = "Ok" ->
                           specialized(specialized_insert(made.m, specialized_entry_key,
                                                          made.r.val),
                                       env, T, specialization, fuel - 1)
                      [] made.r.tag = "Err" ->
                           specialized_failed(made.m, specialized_entry_key, made.r.err)
                      [] OTHER -> made
                    : made \in {any_factory(m, env, specialized_entry_key,
                                            container_entry.f, fuel - 1)} } : TRUE
           [] OTHER -> [m |-> m, r |-> Err(MissingSpecializedEntry)]

\* The integers of a set in the order HashSet::iter yields them.
iter(env, set) == SelectSeq(env.order, LAMBDA v : v \in set)

\* One turn of the loop of all_specialized on the result of specialized():
\* push the instance and go on, or return the error.
\* Variant: a failed discriminant is skipped and the loop goes on.
match_specialized_skip(instances, r) ==
    IF r.tag = "Ok"
    THEN [continue |-> TRUE, instances |-> Append(instances, r.val)]
    ELSE [continue |-> TRUE, instances |-> instances]
\* Variant: the collection keeps only the instance resolved last.
match_specialized_last(instances, r) ==
    IF r.tag = "Ok"
    THEN [continue |-> TRUE, instances |-> <<r.val>>]
    ELSE [continue |-> FALSE, instances |-> instances]
match_specialized(instances, r) ==
    IF r.tag = "Ok"
    THEN [continue |-> TRUE, instances |-> Append(instances, r.val)]
    ELSE [continue |-> FALSE, instances |-> instances]

enumerate(m, env, T, dt, values, instances, fuel) ==
    IF values = <<>> THEN [m |-> m, r |-> Ok(instances)]
    ELSE IF ~HasMember(dt, Head(values)) THEN [m |-> m, r |-> Panic("nope")]
    ELSE CHOOSE out \in {
             LET turn == match_specialized(instances, one.r) IN
             CASE one.r.tag = "Panic" -> one
               [] turn.continue ->
                    enumerate(one.m, env, T, dt, Tail(values), turn.instances, fuel)
               [] OTHER -> one
             : one \in {specialized(m, env, T, FromI32(dt, Head(values)), fuel)} } : TRUE

\* Variant: an absent pair starts with the integer 0 instead of empty.
or_insert_with_zero(specializations, k) ==
    IF k \in DOMAIN specializations THEN specializations ELSE Put(specializations, k, {0})
\* specializations.entry(key).or_insert_with(HashSet::new)
or_insert_with(specializations, k) ==
    IF k \in DOMAIN specializations THEN specializations ELSE Put(specializations, k, {})

\* all_specialized keeps the RefMut of `specializations` until it returns.
all_specialized(m, env, T, dt, fuel) ==
    LET k == KnownSpecializationKey(T, dt) IN
    IF fuel = 0 THEN [m |-> m, r |-> Panic("StackOverflow")]
    ELSE IF m.borrowed THEN [m |-> m, r |-> Panic("BorrowMutError")]
    ELSE LET m1 == [m EXCEPT !.borrowed = TRUE,
                             !.specializations = or_insert_with(@, k)]
             values == iter(env, m1.specializations[k])
             m2 == [m1 EXCEPT !.log = Append(@, <<"iter", k, values>>)]
         IN CHOOSE out \in {
                IF done.r.tag = "Panic" THEN done
                ELSE [m |-> [done.m EXCEPT !.borrowed = FALSE], r |-> done.r]
                : done \in {enumerate(m2, env, T, dt, values, <<>>, fuel - 1)} } : TRUE

\* -------------------------------------------------------------------- state
VARIABLES
    entries,              \* Container.entries: TypeId -> ContainerEntry
    specialized_entries,  \* Container.specialized_entries
    specializations,      \* Container.specializations: pair -> HashSet<i32>
    allocs,               \* allocations made so far, per key
    hist,                 \* factory events per key since its last registration
    lastReg,              \* what the most recent registration of a key gave
    passed,               \* integers handed to specialized registrations, per pair
    regs,                 \* registration calls made by the application
    last                  \* the call made last: operation, key, result, events

vars == <<entries, specialized_entries, specializations, allocs, hist,
          lastReg, passed, regs, last>>

\* The objects the call l handed to the application.
Handed(l) ==
    IF l.res.tag # "Ok" THEN {}
    ELSE IF l.op \in {"default", "specialized"} THEN {l.res.val}
    ELSE IF l.op = "all_specialized" THEN { l.res.val[i] : i \in DOMAIN l.res.val }
    ELSE {}

\* The container between two calls of the application: no RefMut is alive.
Machine ==
    [entries |-> entries, specialized_entries |-> specialized_entries,
     specializations |-> specializations, borrowed |-> FALSE,
     allocs |-> allocs, hist |-> hist, lastReg |-> lastReg,
     passed |-> passed, held |-> Handed(last), log |-> <<>>]

\* The process is alive until a call panics.
Alive == last.res.tag # "Panic"

\* Container::new()
Init ==
    /\ entries = EmptyMap
    /\ specialized_entries = EmptyMap
    /\ specializations = EmptyMap
    /\ allocs = [k \in AllKeys |-> 0]
    /\ hist = [k \in AllKeys |-> <<>>]
    /\ lastReg = EmptyMap
    /\ passed = [k \in KnownKeys |-> {}]
    /\ regs = 0
    /\ last = [op |-> "new", key |-> <<>>, res |-> Ok(Unit), log |-> <<>>]

\* The state after a call that returned `out`.
Returned(out, op, key, n) ==
    /\ out.r.tag # "Panic" => \A k \in AllKeys : Len(out.m.hist[k]) <= MaxHist
    /\ entries' = out.m.entries
    /\ specialized_entries' = out.m.specialized_entries
    /\ specializations' = out.m.specializations
    /\ allocs' = out.m.allocs
    /\ hist' = out.m.hist
    /\ lastReg' = out.m.lastReg
    /\ passed' = out.m.passed
    /\ regs' = regs + n
    /\ last' = [op |-> op, key |-> key, res |-> out.r, log |-> out.m.log]

\* Keys whose registered closure may fail when it is run.
FlakyKeys ==
    { <<T>> : T \in { X \in DOMAIN entries :
                        entries[X].kind = "Factory" /\ entries[X].f \in Flaky } }
    \cup { k \in DOMAIN specialized_entries :
             specialized_entries[k].kind = "SpecializedFactory"
             /\ specialized_entries[k].f \in Flaky }

\* The known-specializations set of a pair (empty when none is recorded).
Known(k) == IF k \in DOMAIN specializations THEN specializations[k] ELSE {}

\* The orders HashSet::iter may take.
Orders == { o \in [1..Cardinality(Ints) -> Ints] : \A a, b \in DOMAIN o : a # b => o[a] # o[b] }
\* The call in which no closure fails, for an order of iteration.
Calm(order) == [fail |-> {}, order |-> order]
Ascending == [i \in 1..Cardinality(Ints) |-> i - 1]
\* The orders that make a difference to a call, given its calm run in
\* ascending order: the others, when it iterates over a set of two.
OrdersOf(calm) ==
    IF \E i \in DOMAIN calm.m.log :
          calm.m.log[i][1] = "iter" /\ Len(calm.m.log[i][3]) >= 2
    THEN Orders ELSE {Ascending}
\* What may happen in a call, given its calm run in the same order: one of
\* the flaky closures it invokes fails (the first failure ends a call, so one
\* failing key per call is enough).
Envs(calm, order) ==
    LET log == calm.m.log
        invoked == { log[i][2] : i \in { n \in DOMAIN log : log[n][1] = "call" } }
    IN [fail : {{}} \cup { {k} : k \in FlakyKeys \cap invoked }, order : {order}]

\* ------------------------------------------------------------------ actions
RegisterInstance(T) ==
    /\ Alive /\ regs < MaxRegs
    /\ \E out \in {register_instance(Machine, T)} :
          Returned(out, "register_instance", DefaultKey(T), 1)

RegisterFactory(T, f) ==
    /\ Alive /\ regs < MaxRegs
    /\ \E out \in {register_factory(Machine, T, f)} :
          Returned(out, "register_factory", DefaultKey(T), 1)

RegisterSpecializedInstance(T, d) ==
    /\ Alive /\ regs < MaxRegs
    /\ \E out \in {register_specialized_instance(Machine, T, d)} :
          Returned(out, "register_specialized_instance", SpecializedEntryKey(T, d), 1)

RegisterSpecializedFactory(T, d, f) ==
    /\ Alive /\ regs < MaxRegs
    /\ \E out \in {register_specialized_factory(Machine, T, d, f)} :
          Returned(out, "register_specialized_factory", SpecializedEntryKey(T, d), 1)

\* `calm` is the run of the call in which no closure fails.
ResolveDefault(T, env, calm) ==
    /\ Alive
    /\ \E out \in {IF env.fail = {} THEN calm
                    ELSE default(Machine, env, T, MaxDepth)} :
          Returned(out, "default", DefaultKey(T), 0)

ResolveSpecialized(T, d, env, calm) ==
    /\ Alive
    /\ \E out \in {IF env.fail = {} THEN calm
                    ELSE specialized(Machine, env, T, d, MaxDepth)} :
          Returned(out, "specialized", SpecializedEntryKey(T, d), 0)

ResolveAllSpecialized(T, dt, env, calm) ==
    /\ Alive
    /\ \E out \in {IF env.fail = {} THEN calm
                    ELSE all_specialized(Machine, env, T, dt, MaxDepth)} :
          Returned(out, "all_specialized", KnownSpecializationKey(T, dt), 0)

Next ==
    \/ \E T \in Types : RegisterInstance(T)
    \/ \E T \in Types : \E f \in ClosuresFor(T) : RegisterFactory(T, f)
    \/ \E u \in SpecializedUses : RegisterSpecializedInstance(u[1], u[2])
    \/ \E u \in SpecializedUses : \E f \in ClosuresAt(u[1], u[2]) :
          RegisterSpecializedFactory(u[1], u[2], f)
    \/ \E T \in Types :
          \E first \in {default(Machine, Calm(Ascending), T, MaxDepth)} :
             \E o \in OrdersOf(first) :
                \E calm \in {IF o = Ascending THEN first
                              ELSE default(Machine, Calm(o), T, MaxDepth)} :
                   \E env \in Envs(calm, o) : ResolveDefault(T, env, calm)
    \/ \E u \in ResolvedUses :
          \E first \in {specialized(Machine, Calm(Ascending), u[1], u[2], MaxDepth)} :
             \E o \in OrdersOf(first) :
                \E calm \in {IF o = Ascending THEN first
                              ELSE specialized(Machine, Calm(o), u[1], u[2], MaxDepth)} :
                   \E env \in Envs(calm, o) : ResolveSpecialized(u[1], u[2], env, calm)
    \/ \E u \in EnumeratedUses :
          \E first \in {all_specialized(Machine, Calm(Ascending), u[1], u[2], MaxDepth)} :
             \E o \in OrdersOf(first) :
                \E calm \in {IF o = Ascending THEN first
                              ELSE all_specialized(Machine, Calm(o), u[1], u[2], MaxDepth)} :
                   \E env \in Envs(calm, o) : ResolveAllSpecialized(u[1], u[2], env, calm)

Spec == Init /\ [][Next]_vars

\* ------------------------------------------------------- reading the state
\* The entry stored under a default or specialized key, if any.
HasEntry(key) ==
    IF Len(key) = 1 THEN key[1] \in DOMAIN entries
    ELSE key \in DOMAIN specialized_entries
EntryAt(key) ==
    IF Len(key) = 1 THEN entries[key[1]] ELSE specialized_entries[key]
EntryKind(key) == IF HasEntry(key) THEN EntryAt(key).kind ELSE "None"
FactoryKinds == {"Factory", "SpecializedFactory"}

Resolutions == {"default", "specialized"}
Events(l, ev) == { i \in DOMAIN l.log : l.log[i][1] = ev }

\* The call l was a resolution of `key` whose own factory ran and returned
\* an error.
OwnFactoryFailed(l, key) ==
    /\ l.op \in Resolutions /\ l.key = key /\ l.res.tag = "Err"
    /\ l.log # <<>>
    /\ l.log[1] = <<"call", key>>
    /\ l.log[Len(l.log)][1] = "err" /\ l.log[Len(l.log)][2] = key

\* No factory invocation follows a successful one in the history h.
NoCallAfterOk(h) ==
    \A i, j \in DOMAIN h : (i < j /\ h[i] = "ok") => h[j] # "call"
HasEvent(h, ev) == \E i \in DOMAIN h : h[i] = ev
\* The two objects are clones of one stored object.
SameValue(a, b) == [a EXCEPT !.copy = 0] = [b EXCEPT !.copy = 0]
FactoryRegistered(key) == key \in DOMAIN lastReg /\ lastReg[key].kind = "factory"

\* ------------------------------------------------------------------- claims

\* C1: between two registrations of a type T, once T's factory has been
\* invoked by default::<T>() and returned Ok, no later invocation of it
\* happens; when no invocation failed, the factory ran exactly once.
C1_FactoryInvokedOnce ==
    \A T \in Types :
        LET h == hist[DefaultKey(T)] IN
        /\ NoCallAfterOk(h)
        /\ (FactoryRegistered(DefaultKey(T)) /\ HasEvent(h, "ok") /\ ~HasEvent(h, "err"))
               => h = <<"call", "ok">>

\* A later default::<T>() on a memoized T returned Ok and invoked nothing.
C1_Witness ==
    /\ hist[DefaultKey("T")] = <<"call", "ok">>
    /\ last.op = "default" /\ last.key = DefaultKey("T")
    /\ last.res.tag = "Ok" /\ last.log = <<>>

C3_AlwaysFactoryError ==
    \A key \in AllKeys :
        OwnFactoryFailed(last, key) => last.res.err.kind = "FactoryError"

\* C3 amended: the resolution returns the very error its factory returned,
\* unwrapped; when the factory is the one resolving default::<U>() with `?`
\* and U has no entry, that error is MissingEntry.
C3_FactoryErrorPassedThrough ==
    \A key \in AllKeys :
        OwnFactoryFailed(last, key) =>
            /\ last.res.err = last.log[Len(last.log)][3]
            /\ (FactoryRegistered(key) /\ lastReg[key].f = "dep"
                  /\ Other(key[1]) \notin DOMAIN entries)
                 => last.res.err = MissingEntry

\* default::<T>() ran T's factory, which resolved the unregistered U.
C3_Witness ==
    /\ OwnFactoryFailed(last, DefaultKey("T"))
    /\ lastReg[DefaultKey("T")].f = "dep"
    /\ "U" \notin DOMAIN entries
    /\ last.res.err = MissingEntry

\* C4: resolving a key that has no entry returns MissingEntry (default) or
\* MissingSpecializedEntry (specialized), invokes no factory and changes
\* neither entry store.
C4_MissingKey ==
    [][/\ (last'.op = "default" /\ ~HasEntry(last'.key))
            => /\ last'.res = Err(MissingEntry)
               /\ last'.log = <<>>
               /\ entries' = entries /\ specialized_entries' = specialized_entries
       /\ (last'.op = "specialized" /\ ~HasEntry(last'.key))
            => /\ last'.res = Err(MissingSpecializedEntry)
               /\ last'.log = <<>>
               /\ entries' = entries /\ specialized_entries' = specialized_entries
      ]_vars

\* default::<T>() on a container that holds T only in the specialized store.
C4_Witness ==
    /\ last.op = "default" /\ last.key = DefaultKey("T")
    /\ last.res = Err(MissingEntry)
    /\ SpecializedEntryKey("T", SA) \in DOMAIN specialized_entries
    /\ DOMAIN entries = {}

\* The object comes from the registration reg: it is the registered
\* instance, or it was built by the registered factory.
FromRegistration(obj, reg) ==
    IF reg.kind = "instance" THEN SameValue(obj, reg.obj) ELSE obj.by = reg.f

\* C5 as stated: a resolution of a key returns the value of the registration
\* made last for that key before the resolution.
C5_LastRegistrationWins ==
    [][\A key \in AllKeys :
         (last'.op \in Resolutions /\ last'.key = key /\ last'.res.tag = "Ok"
            /\ key \in DOMAIN lastReg)
           => FromRegistration(last'.res.val, lastReg[key])
      ]_vars

\* The call l was default::<T>() for a T whose factory is the one resolving
\* default::<U>(), with U registered, and the factory was invoked.
ResolvedThroughDependency(l, T) ==
    /\ l.op = "default" /\ l.key = DefaultKey(T) /\ l.res.tag # "Panic"
    /\ l.log # <<>> /\ l.log[1] = <<"call", DefaultKey(T)>>
    /\ FactoryRegistered(DefaultKey(T)) /\ lastReg[DefaultKey(T)].f = "dep"
    /\ Other(T) \in DOMAIN entries
FailedIn(l, key) == \E i \in Events(l, "err") : l.log[i][2] = key

\* C6: when T's factory resolves the registered U, default::<T>() succeeds
\* unless a factory fails; U is memoized as an Instance once its own
\* resolution went well, also when T's factory fails afterwards and T stays
\* a Factory; U's factory obeys its own invoke-once rule.
C6_DependencyMemoizedIndependently ==
    \A T \in Types :
        ResolvedThroughDependency(last, T) =>
            LET U == Other(T)
                h == hist[DefaultKey(U)]
            IN /\ Events(last, "err") = {} => last.res.tag = "Ok"
               /\ ~FailedIn(last, DefaultKey(U)) => entries[U].kind = "Instance"
               /\ FailedIn(last, DefaultKey(T)) => entries[T].kind = "Factory"
               /\ NoCallAfterOk(h)
               /\ (FactoryRegistered(DefaultKey(U)) /\ HasEvent(h, "ok") /\ ~HasEvent(h, "err"))
                     => h = <<"call", "ok">>

\* T's factory resolved U, whose factory was invoked and memoized, and then
\* failed itself.
C6_Witness ==
    /\ ResolvedThroughDependency(last, "T")
    /\ last.res = Err(FactoryError(Boom))
    /\ <<"ok", DefaultKey("U")>> \in { last.log[i] : i \in DOMAIN last.log }
    /\ entries["U"].kind = "Instance" /\ entries["T"].kind = "Factory"

\* C7 as stated: a factory run by all_specialized calls back into the
\* container on another key without a borrow conflict.
C7_NoBorrowConflict ==
    ~(last.res.tag = "Panic" /\ last.res.why = "BorrowMutError")

\* C8: between calls, the known-specializations set of every pair contains
\* every integer handed to a specialized registration for the pair.
C8_KnownSpecializationsKept ==
    Alive => \A k \in KnownKeys : passed[k] \subseteq Known(k)

\* Two discriminants registered for (T, S), then enumerated.
C8_Witness ==
    /\ passed[KnownSpecializationKey("T", "S")] = {0, 1}
    /\ last.op = "all_specialized" /\ last.key = KnownSpecializationKey("T", "S")
    /\ last.res.tag = "Ok"

\* The bijections between 1..n and a set of n integers.
Bijections(set) ==
    { o \in [1..Cardinality(set) -> set] : \A v \in set : \E i \in DOMAIN o : o[i] = v }

\* C9: all_specialized::<T,S>() that returns Ok returns one result per
\* registered integer of the pair: the instance stored for that integer,
\* which is what specialized::<T,S>(d) yields, and nothing else.
C9_AllSpecializedExact ==
    (last.op = "all_specialized" /\ last.res.tag = "Ok") =>
        LET k == last.key
            instances == last.res.val
        IN /\ Known(k) = passed[k]
           /\ Len(instances) = Cardinality(Known(k))
           /\ \E o \in Bijections(Known(k)) :
                \A i \in DOMAIN instances :
                    LET key == <<k[1], k[2], o[i]>> IN
                    /\ EntryKind(key) = "Instance"
                    /\ SameValue(instances[i], EntryAt(key).obj)
                    /\ instances[i].id[1] = key

\* Both discriminants of (T, S) were built by their factories in this call.
C9_Witness ==
    /\ last.op = "all_specialized" /\ last.key = KnownSpecializationKey("T", "S")
    /\ last.res.tag = "Ok" /\ Len(last.res.val) = 2
    /\ Cardinality(Events(last, "ok")) = 2

\* The integers all_specialized iterated over in the call l, in order.
Iterated(l) == l.log[1][3]
\* Positions of the iteration whose discriminant failed to resolve.
FailedAt(l) ==
    { i \in DOMAIN Iterated(l) : FailedIn(l, <<l.key[1], l.key[2], Iterated(l)[i]>>) }
Min(set) == CHOOSE a \in set : \A b \in set : a <= b

\* C10: when a discriminant fails to resolve during all_specialized, the call
\* returns the error of the first one that failed and no values, and no
\* factory of a discriminant that comes later in the iteration is invoked.
C10_FirstFailureAborts ==
    (last.op = "all_specialized" /\ Alive /\ FailedAt(last) # {}) =>
        LET first == Min(FailedAt(last))
            key == <<last.key[1], last.key[2], Iterated(last)[first]>>
            final == last.log[Len(last.log)]
        IN /\ final[1] = "err" /\ final[2] = key
           /\ last.res = Err(final[3])
           /\ \A j \in DOMAIN Iterated(last) :
                 j > first =>
                    ~\E i \in DOMAIN last.log :
                        last.log[i][2] = <<last.key[1], last.key[2], Iterated(last)[j]>>

\* The second discriminant of the iteration failed after the first had been
\* built; or the first failed and the second was left alone.
C10_Witness ==
    /\ last.op = "all_specialized" /\ last.res.tag = "Err"
    /\ Len(Iterated(last)) = 2
    /\ Min(FailedAt(last)) = 1
    /\ EntryKind(<<last.key[1], last.key[2], Iterated(last)[2]>>) = "SpecializedFactory"

\* The objects the call l handed out for the key: an object is made for one
\* key and bears it.
HandedFor(l, key) == { o \in Handed(l) : o.id[1] = key }
\* The keys that have an entry.
StoredKeys == { <<T>> : T \in DOMAIN entries } \cup DOMAIN specialized_entries

Registrations ==
    {"register_instance", "register_factory",
     "register_specialized_instance", "register_specialized_factory"}
\* The step registers the key: the application does, or a factory the step
\* runs does.
Reregistered(key) ==
    \/ last'.op \in Registrations /\ last'.key = key
    \/ key \in DOMAIN lastReg' /\ (key \notin DOMAIN lastReg \/ lastReg'[key] # lastReg[key])

\* The stored object of a key stays the same object until the key is
\* registered again.
StoredObjectStays(key) ==
    (EntryKind(key) = "Instance" /\ ~Reregistered(key))
       => EntryKind(key)' = "Instance" /\ EntryAt(key)'.obj = EntryAt(key).obj

\* C11 as stated: every object a resolution hands out for a key is the one
\* object stored at the key, which stays the same object until the key is
\* registered again; so two resolutions in a row hand out the same object.
C11_SameObjectAlways ==
    /\ [](\A o \in Handed(last) :
             EntryKind(o.id[1]) = "Instance" /\ o = EntryAt(o.id[1]).obj)
    /\ [][/\ \A key \in StoredKeys : StoredObjectStays(key)
          /\ \A a \in Handed(last), b \in Handed(last') :
                (a.id[1] = b.id[1] /\ ~Reregistered(a.id[1])) => a = b
         ]_vars

\* C11 amended: the stored object of a key stays the same object until the
\* key is registered again, and every resolution hands out T::clone of it: the
\* stored object itself when T is a shared handle, so that all resolutions of
\* the key agree; a separately constructed copy of equal value otherwise.
C11_SameObjectForSharedHandles ==
    /\ [](\A o \in Handed(last) :
             /\ EntryKind(o.id[1]) = "Instance"
             /\ SameValue(o, EntryAt(o.id[1]).obj)
             /\ Shared(o.ty) <=> o = EntryAt(o.id[1]).obj)
    /\ [][/\ \A key \in StoredKeys : StoredObjectStays(key)
          /\ \A a \in Handed(last), b \in Handed(last') :
                (a.id[1] = b.id[1] /\ ~Reregistered(a.id[1]))
                   => SameValue(a, b) /\ (Shared(a.ty) <=> a = b)
         ]_vars

\* all_specialized::<T,S>() handed out the two objects that earlier
\* resolutions had their factories build, without invoking a factory.
C11_Witness ==
    /\ last.op = "all_specialized" /\ last.key = KnownSpecializationKey("T", "S")
    /\ last.res.tag = "Ok" /\ Len(last.res.val) = 2
    /\ Events(last, "call") = {}
    /\ \A i \in DOMAIN last.res.val :
          last.res.val[i].by = "plain" /\ last.res.val[i].copy = 0

\* C12: for every specialized key, between two registrations of it no
\* factory invocation follows a successful one, whichever of specialized and
\* all_specialized resolves it; the entry is the SpecializedFactory until the
\* first success and an Instance from then on, and when no invocation failed
\* the factory ran exactly once.
C12_SpecializedInvokedOnce ==
    \A key \in SpecializedKeys :
        LET h == hist[key] IN
        /\ NoCallAfterOk(h)
        /\ HasEvent(h, "ok") => EntryKind(key) = "Instance"
        /\ (FactoryRegistered(key) /\ ~HasEvent(h, "ok"))
              => EntryKind(key) = "SpecializedFactory"
        /\ (FactoryRegistered(key) /\ HasEvent(h, "ok") /\ ~HasEvent(h, "err"))
              => h = <<"call", "ok">>

\* all_specialized::<T,S>() invoked the factory of one discriminant only: the
\* other had been memoized by an earlier resolution.
C12_Witness ==
    /\ last.op = "all_specialized" /\ last.key = KnownSpecializationKey("T", "S")
    /\ last.res.tag = "Ok" /\ Len(last.res.val) = 2
    /\ Cardinality(Events(last, "call")) = 1
    /\ hist[SpecializedEntryKey("T", SA)] = <<"call", "ok">>
    /\ hist[SpecializedEntryKey("T", SB)] = <<"call", "ok">>

\* C13: two specialized keys are the same slot exactly when owning type,
\* discriminant type and integer are all equal, and two pairs are the same
\* set exactly when owning type and discriminant type are; so every integer
\* handed to a registration of a pair has its own entry under (type,
\* discriminant type, integer), holding an object of the owning type made for
\* that key, and the known set of each pair holds the integers of that pair
\* alone.
C13_KeysSeparateSlots ==
    /\ \A T1, T2 \in Types : \A d1, d2 \in Discriminants :
          /\ SpecializedEntryKey(T1, d1) = SpecializedEntryKey(T2, d2)
                <=> (T1 = T2 /\ d1.dt = d2.dt /\ IntOf(d1) = IntOf(d2))
          /\ KnownSpecializationKey(T1, d1.dt) = KnownSpecializationKey(T2, d2.dt)
                <=> (T1 = T2 /\ d1.dt = d2.dt)
    /\ Alive =>
          \A k \in KnownKeys :
              /\ Known(k) = passed[k]
              /\ \A v \in passed[k] :
                    LET key == <<k[1], k[2], v>> IN
                    /\ HasEntry(key)
                    /\ EntryKind(key) = "Instance"
                          => EntryAt(key).obj.ty = k[1] /\ EntryAt(key).obj.id[1] = key
    /\ \A key \in SpecializedKeys :
          \A o \in HandedFor(last, key) : o.ty = key[1]

\* (T, S, 0), (T, R, 0) and (U, S, 0) hold three entries at once, each pair
\* knows its own integer, and specialized::<T,R>(A) returned the object of
\* its own slot.
C13_Witness ==
    /\ \A key \in {<<"T", "S", 0>>, <<"T", "R", 0>>, <<"U", "S", 0>>} : HasEntry(key)
    /\ \A k \in {<<"T", "S">>, <<"T", "R">>, <<"U", "S">>} : Known(k) = {0}
    /\ last.op = "specialized" /\ last.key = <<"T", "R", 0>> /\ last.res.tag = "Ok"
    /\ last.res.val = EntryAt(<<"T", "R", 0>>).obj
    /\ EntryKind(<<"T", "S", 0>>) = "Instance"
    /\ last.res.val # EntryAt(<<"T", "S", 0>>).obj

\* The step changes what is stored at the key.
Changed(key) ==
    \/ HasEntry(key) # HasEntry(key)'
    \/ HasEntry(key) /\ HasEntry(key)' /\ EntryAt(key) # EntryAt(key)'
\* The step replaces the factory of the key, which it invoked with success,
\* by an Instance.
Memoized(key) ==
    /\ EntryKind(key) \in FactoryKinds /\ EntryKind(key)' = "Instance"
    /\ \E i \in DOMAIN last'.log : last'.log[i] = <<"ok", key>>
ResolvingCalls == {"default", "specialized", "all_specialized"}
KeysOnlyGrow ==
    /\ DOMAIN entries \subseteq DOMAIN entries'
    /\ DOMAIN specialized_entries \subseteq DOMAIN specialized_entries'

Invocations(l, key) == { i \in DOMAIN l.log : l.log[i] = <<"call", key>> }
\* The closure registered at the key resolves the key itself.
ResolvesItself(key) ==
    EntryKind(key) \in FactoryKinds /\ EntryAt(key).f = "cycle"

Invoked(l) == { l.log[i][2] : i \in Events(l, "call") }
\* The closure stored at the key.
ClosureAt(key) == IF EntryKind(key) \in FactoryKinds THEN EntryAt(key).f ELSE "none"
SpecializedStoreSame ==
    specialized_entries' = specialized_entries /\ specializations' = specializations

C17_EmptyEnumeration ==
    [][(last'.op = "all_specialized" /\ passed[last'.key] = {}) =>
           /\ last'.res = Ok(<<>>)
           /\ last'.log = << <<"iter", last'.key, <<>> >> >>
           /\ entries' = entries /\ specialized_entries' = specialized_entries
           /\ last'.key \in DOMAIN specializations'
           /\ specializations'[last'.key] = {}
           /\ \A k \in (DOMAIN specializations') \ {last'.key} :
                 k \in DOMAIN specializations /\ specializations'[k] = specializations[k]
      ]_vars

\* all_specialized::<U,S>() on a container that holds specializations of T
\* only: the call came back empty and the empty set of (U, S) is recorded.
C17_Witness ==
    /\ last.op = "all_specialized" /\ last.key = KnownSpecializationKey("U", "S")
    /\ last.res = Ok(<<>>)
    /\ passed[KnownSpecializationKey("U", "S")] = {}
    /\ KnownSpecializationKey("U", "S") \in DOMAIN specializations
    /\ specializations[KnownSpecializationKey("U", "S")] = {}
    /\ Known(KnownSpecializationKey("T", "S")) = {0, 1}

\* The call l ran the factory of the key it resolves.
OwnFactoryRan(l) == l.log # <<>> /\ l.log[1] = <<"call", l.key>>

\* C18: when default::<T>() or specialized::<T,S>(d) returns Ok(v), the entry
\* of the resolved key is an Instance and v is the value of that instance;
\* when the call ran the factory of the key, the instance is what the factory
\* returned, also when the factory registered an instance for the key while
\* it ran: the registered instance is replaced.
C18_ReturnedIsStored ==
    (last.op \in Resolutions /\ last.res.tag = "Ok") =>
        /\ EntryKind(last.key) = "Instance"
        /\ SameValue(last.res.val, EntryAt(last.key).obj)
        /\ OwnFactoryRan(last) =>
              /\ EntryAt(last.key).obj.by \in Closures
              /\ lastReg[last.key].kind = "instance"
                    => ~SameValue(EntryAt(last.key).obj, lastReg[last.key].obj)

\* specialized::<T,S>(A) ran a factory that registered an instance for
\* (T, S, 0) itself; the entry is the object the factory returned.
C18_Witness ==
    /\ last.op = "specialized" /\ last.key = SpecializedEntryKey("T", SA)
    /\ last.res.tag = "Ok" /\ OwnFactoryRan(last)
    /\ lastReg[last.key].kind = "instance"
    /\ EntryKind(last.key) = "Instance"
    /\ EntryAt(last.key).obj.by = "self"
    /\ last.res.val = EntryAt(last.key).obj

\* C19: every integer in the known-specializations set of a pair has an
\* entry in the specialized store under (type, discriminant type, integer);
\* so an error of all_specialized never stems from an enumerated key that is
\* absent: it is the error a factory invoked by the call returned.
C19_KnownValuesHaveEntries ==
    /\ \A k \in DOMAIN specializations :
          \A v \in specializations[k] : <<k[1], k[2], v>> \in DOMAIN specialized_entries
    /\ (last.op = "all_specialized" /\ last.res.tag = "Err") =>
          /\ last.log[Len(last.log)][1] = "err"
          /\ last.res.err = last.log[Len(last.log)][3]
          /\ last.log[Len(last.log)][2] \in DOMAIN specialized_entries

\* all_specialized::<T,S>() went over both known integers, found the entry
\* of each and returned the error of a factory.
C19_Witness ==
    /\ last.op = "all_specialized" /\ last.key = KnownSpecializationKey("T", "S")
    /\ specializations[last.key] = {0, 1}
    /\ last.res = Err(FactoryError(Boom))
    /\ Cardinality(Events(last, "call")) = 2

\* C20: the default store holds only Instance and Factory entries and the
\* specialized store only Instance and SpecializedFactory entries; so a
\* resolution that returns the missing-entry error of its path without having
\* invoked a factory resolved a key that has no entry.
C20_EntryKindsFitStore ==
    /\ \A T \in DOMAIN entries : entries[T].kind \in {"Instance", "Factory"}
    /\ \A key \in DOMAIN specialized_entries :
          specialized_entries[key].kind \in {"Instance", "SpecializedFactory"}
    /\ (last.op = "default" /\ last.res = Err(MissingEntry) /\ last.log = <<>>)
          => ~HasEntry(last.key)
    /\ (last.op = "specialized" /\ last.res = Err(MissingSpecializedEntry)
          /\ last.log = <<>>)
          => ~HasEntry(last.key)

\* specialized::<T,S>(B) found no entry, while the specialized store holds
\* an instance and a factory under other keys.
C20_Witness ==
    /\ last.op = "specialized" /\ last.key = SpecializedEntryKey("T", SB)
    /\ last.res = Err(MissingSpecializedEntry)
    /\ EntryKind(SpecializedEntryKey("T", SA)) = "SpecializedFactory"
    /\ EntryKind(SpecializedEntryKey("U", SA)) = "Instance"

====
